---- MODULE Spec2Model ----
(***************************************************************************)
(* Screenshot extension: the content script's full-page capture            *)
(* (ContentScriptController), the background service worker (message       *)
(* listener, handleCapture, saveScreenshot, deleteScreenshot,              *)
(* getScreenshotHistory) and the options page's storage operations.        *)
(*                                                                         *)
(* Every async function is cut at its awaits: one action is the code that  *)
(* runs between two suspension points of one call.                         *)
(***************************************************************************)
EXTENDS Integers, Sequences, FiniteSets, TLC

VARIABLES
  page,         \* DOM metrics of the tab: page and viewport extent
  scroll,       \* window.scrollX / window.scrollY
  isCapturing,  \* ContentScriptController.isCapturing
  canvas,       \* ContentScriptController.canvas (NULL or a reference)
  ctx,          \* ContentScriptController.ctx (NULL or a reference)
  pc,           \* per captureFullPage call: where it is suspended
  opts,         \* per call: the options argument
  pos,          \* per call: loop variables <<row, col>>
  orig,         \* per call: <<originalScrollX, originalScrollY>>
  img,          \* per call: the image being decoded by drawImageToCanvas
  result,       \* per call: the reply passed to sendResponse (NULL before)
  tiles,        \* tile requests issued by the latest accepted session
  pending,      \* calls whose captureVisibleTab request is unanswered
  reply,        \* the last answer handed to captureVisibleArea's callback
  screenshots,  \* chrome.storage.local, key 'screenshots' (NULL when never set)
  settings,     \* chrome.storage.local, key 'settings' (NULL when never set)
  clock,        \* what Date.now() returns
  bpc,          \* per background request: where its handler is suspended
  msg,          \* per request: the message
  tab,          \* per request: sender.tab
  shot,         \* per request: handleCapture's screenshotData
  arr,          \* per request: the array the handler is about to write
  response,     \* per request: what sendResponse was called with
  downloads     \* completed chrome.downloads.download calls

orchVars == <<page, scroll, isCapturing, canvas, ctx, pc, opts, pos, orig,
              img, result, tiles, pending, reply>>

coordVars == <<screenshots, settings, clock, bpc, msg, tab, shot, arr, response,
               downloads>>

vars == <<orchVars, coordVars>>

----------------------------------------------------------------------------
(* Bounds *)

MaxInvocations == 3
MaxTiles == 9
MaxRequests == 2
MaxTicks == 1

Inv == 1..MaxInvocations
Req == 1..MaxRequests
Slots == 1..(IF MaxInvocations >= MaxRequests THEN MaxInvocations ELSE MaxRequests)

----------------------------------------------------------------------------
(* JavaScript values *)

\* null / undefined, and a present value
NULL == <<>>
Ref(v) == <<v>>
Deref(r) == r[1]

Max2(a, b) == IF a >= b THEN a ELSE b
Min2(a, b) == IF a <= b THEN a ELSE b

\* error messages thrown by the content script
MsgInProgress == "capture already in progress"      \* part_000:43
MsgNoContext == "cannot create canvas context"      \* part_000:76
MsgTileFailed == "capture failed"                   \* part_000:134
MsgCtxUnavailable == "canvas context unavailable"   \* part_000:148
MsgImageLoad == "image load failed"                 \* part_000:151

\* quality is kept in hundredths: 0.9 is 90
DefaultQuality == 90
DefaultFormat == "png"

----------------------------------------------------------------------------
(* Inputs *)

PageWidths == {1000, 1920}
PageHeights == {1000, 3000}
Viewports == {<<400, 400>>, <<1920, 1000>>}

AllPages == { [pageWidth |-> W, pageHeight |-> H,
               viewportWidth |-> v[1], viewportHeight |-> v[2]] :
              W \in PageWidths, H \in PageHeights, v \in Viewports }

OptionsSet == { [quality |-> NULL, format |-> NULL],
                [quality |-> Ref(50), format |-> Ref("jpeg")] }

\* what chrome.runtime.sendMessage hands to captureVisibleArea's callback
TileReplies(snapshot) ==
  { [lastError |-> NULL, success |-> TRUE, dataUrl |-> Ref(snapshot), error |-> NULL],
    [lastError |-> NULL, success |-> FALSE, dataUrl |-> NULL, error |-> Ref("tab not capturable")],
    [lastError |-> NULL, success |-> FALSE, dataUrl |-> NULL, error |-> NULL],
    [lastError |-> Ref("port closed"), success |-> FALSE, dataUrl |-> NULL, error |-> NULL] }

----------------------------------------------------------------------------
(* Page geometry *)

\* Math.ceil(a / b) for a >= 0, b > 0
Ceil(a, b) == IF a % b = 0 THEN a \div b ELSE (a \div b) + 1

Rows(p) == Ceil(p.pageHeight, p.viewportHeight)
Cols(p) == Ceil(p.pageWidth, p.viewportWidth)

TileX_RowForCol(p, rc) == rc[1] * p.viewportWidth

TileX(p, rc) == rc[2] * p.viewportWidth
TileY(p, rc) == rc[1] * p.viewportHeight

\* the browser clamps a scroll request to the scrollable range
MaxScrollX(p) == Max2(0, p.pageWidth - p.viewportWidth)
MaxScrollY(p) == Max2(0, p.pageHeight - p.viewportHeight)
ScrollTo(p, x, y) == <<Min2(x, MaxScrollX(p)), Min2(y, MaxScrollY(p))>>

\* the pages whose grid stays within the bound
Pages == { p \in AllPages : Rows(p) * Cols(p) <= MaxTiles }

InitScrolls(p) == { <<0, 0>>, <<MaxScrollX(p), MaxScrollY(p)>> }

NextTile_ColumnMajor(p, rc) ==
  IF rc[1] + 1 < Rows(p) THEN Ref(<<rc[1] + 1, rc[2]>>)
  ELSE IF rc[2] + 1 < Cols(p) THEN Ref(<<0, rc[2] + 1>>)
  ELSE NULL

\* the loop header of the grid: the pair after rc, or NULL when the grid is done
NextTile(p, rc) ==
  IF rc[2] + 1 < Cols(p) THEN Ref(<<rc[1], rc[2] + 1>>)
  ELSE IF rc[1] + 1 < Rows(p) THEN Ref(<<rc[1] + 1, 0>>)
  ELSE NULL

\* the first pair of the grid, or NULL when the grid is empty
FirstTile(p) ==
  IF Rows(p) > 0 /\ Cols(p) > 0 THEN Ref(<<0, 0>>) ELSE NULL

----------------------------------------------------------------------------
(* Content script: captureFullPage *)

Active == {"wait", "capture", "draw"}
Ended == {"done", "failed"}

GuardRejects_Never(flag) == FALSE

\* the guard at the top of captureFullPage
GuardRejects(flag) == flag

\* replies of the content script's message listener
ReplySuccess(dataUrl) == [success |-> TRUE, dataUrl |-> Ref(dataUrl), error |-> NULL]
ReplyFailure(message) == [success |-> FALSE, dataUrl |-> NULL, error |-> Ref(message)]

FlagAfterFinally_Never(outcome) == TRUE
FlagAfterFinally_OnReturnOnly(outcome) == outcome = "throw"
CanvasAfterFinally_Leak(c) == c

\* the finally block: the flag, and the canvas and context fields
FlagAfterFinally(outcome) == FALSE
CanvasAfterFinally(c) == NULL
CtxAfterFinally(c, x) == IF c # NULL THEN NULL ELSE x

\* a variant in which the guard's throw passes through the finally block
GuardExit_ThroughFinally(flag, c, x) ==
  <<FlagAfterFinally("throw"), CanvasAfterFinally(c), CtxAfterFinally(c, x)>>

\* the guard throws before the try statement is entered, so the finally block
\* does not run for it: the flag, canvas and context fields after the throw
GuardExit(flag, c, x) == <<flag, c, x>>

\* canvas.toDataURL(`image/${format}`, quality)
ToDataURL(c, o) ==
  [format |-> IF o.format # NULL THEN Deref(o.format) ELSE DefaultFormat,
   quality |-> IF o.quality # NULL THEN Deref(o.quality) ELSE DefaultQuality,
   width |-> c.width, height |-> c.height, draws |-> c.draws]

CaptureVisibleAreaSettle_NoLastError(answer) ==
  IF answer.success THEN <<"resolve", Deref(answer.dataUrl)>>
  ELSE <<"reject", IF answer.error # NULL THEN Deref(answer.error) ELSE MsgTileFailed>>

\* how captureVisibleArea settles: <<"resolve", dataUrl>> or <<"reject", message>>
CaptureVisibleAreaSettle(answer) ==
  IF answer.lastError # NULL THEN <<"reject", Deref(answer.lastError)>>
  ELSE IF answer.success THEN <<"resolve", Deref(answer.dataUrl)>>
  ELSE <<"reject", IF answer.error # NULL THEN Deref(answer.error) ELSE MsgTileFailed>>

\* the locals of call i die with the call
DropLocals(i) ==
  /\ opts' = [opts EXCEPT ![i] = [quality |-> NULL, format |-> NULL]]
  /\ pos' = [pos EXCEPT ![i] = <<0, 0>>]
  /\ orig' = [orig EXCEPT ![i] = <<0, 0>>]
  /\ img' = [img EXCEPT ![i] = NULL]

\* the session of call i leaves through the finally block with a thrown error
Abort(i, message) ==
  /\ isCapturing' = FlagAfterFinally("throw")
  /\ canvas' = IF canvas # NULL THEN CanvasAfterFinally(canvas) ELSE canvas
  /\ ctx' = CtxAfterFinally(canvas, ctx)
  /\ pc' = [pc EXCEPT ![i] = "failed"]
  /\ result' = [result EXCEPT ![i] = ReplyFailure(message)]
  /\ DropLocals(i)

\* the code after the grid loop, with c the canvas field and saved the recorded
\* scroll offset: restore the scroll, encode, finally
Finish(i, c, saved, o) ==
  /\ scroll' = ScrollTo(page, saved[1], saved[2])
  /\ isCapturing' = FlagAfterFinally("return")
  /\ canvas' = CanvasAfterFinally(c)
  /\ ctx' = CtxAfterFinally(c, ctx)
  /\ pc' = [pc EXCEPT ![i] = "done"]
  /\ result' = [result EXCEPT ![i] = ReplySuccess(ToDataURL(Deref(c), o))]
  /\ DropLocals(i)

\* captureFullPage from its entry to its first suspension
Invoke(i, o) ==
  /\ pc[i] = "idle"
  /\ IF GuardRejects(isCapturing)
       THEN /\ pc' = [pc EXCEPT ![i] = "rejected"]
            /\ result' = [result EXCEPT ![i] = ReplyFailure(MsgInProgress)]
            /\ isCapturing' = GuardExit(isCapturing, canvas, ctx)[1]
            /\ canvas' = GuardExit(isCapturing, canvas, ctx)[2]
            /\ ctx' = GuardExit(isCapturing, canvas, ctx)[3]
            /\ UNCHANGED <<page, scroll, opts, pos, orig, img, tiles, pending, reply>>
       ELSE \E gotContext \in BOOLEAN :
              LET c == Ref([width |-> page.pageWidth, height |-> page.pageHeight,
                            draws |-> <<>>])
              IN IF ~gotContext
                   THEN /\ isCapturing' = FlagAfterFinally("throw")
                        /\ canvas' = CanvasAfterFinally(c)
                        /\ ctx' = CtxAfterFinally(c, NULL)
                        /\ pc' = [pc EXCEPT ![i] = "failed"]
                        /\ result' = [result EXCEPT ![i] = ReplyFailure(MsgNoContext)]
                        /\ UNCHANGED <<page, scroll, opts, pos, orig, img, tiles,
                                       pending, reply>>
                   ELSE /\ tiles' = <<>>
                        /\ IF FirstTile(page) = NULL
                             THEN /\ Finish(i, c, scroll, o)
                                  /\ UNCHANGED <<page, pending, reply>>
                             ELSE /\ isCapturing' = TRUE
                                  /\ canvas' = c
                                  /\ ctx' = Ref("2d")
                                  /\ orig' = [orig EXCEPT ![i] = scroll]
                                  /\ pos' = [pos EXCEPT ![i] = Deref(FirstTile(page))]
                                  /\ scroll' = ScrollTo(page,
                                                 TileX(page, Deref(FirstTile(page))),
                                                 TileY(page, Deref(FirstTile(page))))
                                  /\ opts' = [opts EXCEPT ![i] = o]
                                  /\ pc' = [pc EXCEPT ![i] = "wait"]
                                  /\ UNCHANGED <<page, img, result, pending, reply>>

\* the settle delay elapses and captureVisibleArea sends its request
WaitDone(i) ==
  /\ pc[i] = "wait"
  /\ pc' = [pc EXCEPT ![i] = "capture"]
  /\ tiles' = Append(tiles, pos[i])
  /\ pending' = pending \cup {i}
  /\ UNCHANGED <<page, scroll, isCapturing, canvas, ctx, opts, pos, orig, img, result,
                 reply>>

\* the callback of captureVisibleArea runs with reply
TileSettle(i, answer) ==
  /\ pc[i] = "capture"
  /\ pending' = pending \ {i}
  /\ reply' = Ref(answer)
  /\ LET s == CaptureVisibleAreaSettle(answer)
     IN IF s[1] = "resolve"
          THEN /\ img' = [img EXCEPT ![i] = Ref(s[2])]
               /\ pc' = [pc EXCEPT ![i] = "draw"]
               /\ UNCHANGED <<page, scroll, isCapturing, canvas, ctx, opts, pos,
                              orig, result, tiles>>
          ELSE /\ Abort(i, s[2])
               /\ UNCHANGED <<page, scroll, tiles>>

\* the Tile Provider answers the request of call i with the visible area
TileReply(i) ==
  \E answer \in TileReplies(scroll) : TileSettle(i, answer)

\* img.onload: draw, then the loop header and either the next scroll or the end
ImgLoad(i) ==
  /\ pc[i] = "draw"
  /\ IF ctx = NULL
       THEN /\ Abort(i, MsgCtxUnavailable)
            /\ UNCHANGED <<page, scroll, tiles, pending, reply>>
       ELSE LET c == Ref([Deref(canvas) EXCEPT !.draws =
                            Append(@, [x |-> TileX(page, pos[i]),
                                       y |-> TileY(page, pos[i]),
                                       tile |-> Deref(img[i])])])
                n == NextTile(page, pos[i])
            IN IF n = NULL
                 THEN /\ Finish(i, c, orig[i], opts[i])
                      /\ UNCHANGED <<page, tiles, pending, reply>>
                 ELSE /\ canvas' = c
                      /\ pos' = [pos EXCEPT ![i] = Deref(n)]
                      /\ scroll' = ScrollTo(page, TileX(page, Deref(n)), TileY(page, Deref(n)))
                      /\ pc' = [pc EXCEPT ![i] = "wait"]
                      /\ UNCHANGED <<page, isCapturing, ctx, opts, orig, img, result,
                                     tiles, pending, reply>>

\* img.onerror
ImgError(i) ==
  /\ pc[i] = "draw"
  /\ Abort(i, MsgImageLoad)
  /\ UNCHANGED <<page, scroll, tiles, pending, reply>>

----------------------------------------------------------------------------
(* The content script against the Tile Provider contract *)

NoOptions == [quality |-> NULL, format |-> NULL]

ContentInit ==
  /\ isCapturing = FALSE
  /\ canvas = NULL
  /\ ctx = NULL
  /\ pc = [i \in Slots |-> "idle"]
  /\ opts = [i \in Slots |-> NoOptions]
  /\ pos = [i \in Slots |-> <<0, 0>>]
  /\ orig = [i \in Slots |-> <<0, 0>>]
  /\ img = [i \in Slots |-> NULL]
  /\ result = [i \in Slots |-> NULL]
  /\ tiles = <<>>
  /\ pending = {}
  /\ reply = NULL

CoordIdle ==
  /\ screenshots = NULL
  /\ settings = NULL
  /\ clock = 0
  /\ bpc = [r \in Slots |-> "new"]
  /\ msg = [r \in Slots |-> NULL]
  /\ tab = [r \in Slots |-> NULL]
  /\ shot = [r \in Slots |-> NULL]
  /\ arr = [r \in Slots |-> NULL]
  /\ response = [r \in Slots |-> NULL]
  /\ downloads = <<>>

OrchInit ==
  /\ page \in Pages
  /\ scroll \in InitScrolls(page)
  /\ ContentInit
  /\ CoordIdle

\* a captureFullPage message reaches the content script's listener
CallCaptureFullPage ==
  \E i \in Inv, o \in OptionsSet :
    /\ i > 1 => pc[i - 1] # "idle"
    /\ Invoke(i, o)
    /\ UNCHANGED coordVars

SettleWait == \E i \in Inv : WaitDone(i) /\ UNCHANGED coordVars
ProvideTile == \E i \in Inv : TileReply(i) /\ UNCHANGED coordVars
ImageLoaded == \E i \in Inv : ImgLoad(i) /\ UNCHANGED coordVars
ImageFailed == \E i \in Inv : ImgError(i) /\ UNCHANGED coordVars

OrchNext ==
  \/ CallCaptureFullPage
  \/ SettleWait
  \/ ProvideTile
  \/ ImageLoaded
  \/ ImageFailed

OrchSpec == OrchInit /\ [][OrchNext]_vars

\* a step of the session in flight: the settle wait ends, the tile request is
\* answered, the image loads or fails to
SessionStep == SettleWait \/ ProvideTile \/ ImageLoaded \/ ImageFailed

\* every settle wait, tile request and image decode completes or fails
OrchFairSpec == OrchSpec /\ WF_vars(SessionStep)

----------------------------------------------------------------------------
(* Background service worker: values *)

HistoryCap == 50

MsPerMinute == 60000
MsPerDay == 86400000

\* the first clock value of a run; earlier records carry smaller timestamps
StartTime == HistoryCap + 1

MsgUnknownAction == "Unknown action"                          \* background.ts:59
MsgNoTab == "No active tab found"                             \* background.ts:70
MsgFullPageFailed == "Full page capture failed"               \* background.ts:88
MsgSaveFailed == "Failed to save screenshot to storage"       \* background.ts:144
MsgDownloadFailed == "Failed to download screenshot"          \* background.ts:158

\* messages of errors raised by the browser APIs
MsgStorageError == "storage error"
MsgCaptureError == "cannot capture tab"
MsgNoReceiver == "Could not establish connection"

\* id: `screenshot_${timestamp}`
IdOf(ts) == <<"screenshot_", ts>>

\* filename: `screenshot_${date}_${hour and minute}_${timestamp}.png`, kept as
\* its three variable parts
FilenameOf(ts) == <<ts \div MsPerDay, (ts % MsPerDay) \div MsPerMinute, ts>>

\* x || ''
OrEmptyString(x) == IF x = NULL \/ x = Ref("") THEN "" ELSE Deref(x)

\* result.screenshots || []
OrEmptyArray(x) == IF x = NULL THEN <<>> ELSE Deref(x)

\* handleCapture's screenshotData
ScreenshotData(ts, dataUrl, t) ==
  [id |-> IdOf(ts), dataUrl |-> dataUrl, timestamp |-> ts, filename |-> FilenameOf(ts),
   url |-> OrEmptyString(t.url), title |-> OrEmptyString(t.title)]

\* what chrome.tabs.captureVisibleTab returns for the viewport at scroll offset s
VisibleImage(p, s) ==
  [format |-> "png", quality |-> 100, width |-> p.viewportWidth,
   height |-> p.viewportHeight, draws |-> <<[x |-> 0, y |-> 0, tile |-> s]>>]

\* the sender's tab, when the sender has one
TheTab == [id |-> 7, windowId |-> 1, url |-> Ref("https://example.test/"), title |-> NULL]

\* a variant that adds the record at the end
Unshift_Push(list, rec) == Append(list, rec)

\* screenshots.unshift(screenshot)
Unshift(list, rec) == <<rec>> \o list

\* a variant that cuts at the front
Splice_Head(list) ==
  IF Len(list) > HistoryCap THEN SubSeq(list, Len(list) - HistoryCap + 1, Len(list))
  ELSE list

\* if (screenshots.length > 50) screenshots.splice(50)
Splice(list) == IF Len(list) > HistoryCap THEN SubSeq(list, 1, HistoryCap) ELSE list

\* a variant that removes nothing
FilterOut_Identity(list, id) == list

\* a variant that keeps nothing
FilterOut_All(list, id) == <<>>

\* screenshots.filter((s) => s.id !== id)
FilterOut(list, id) == SelectSeq(list, LAMBDA s : s.id # id)

\* responses of the background listener
BgCaptured(dataUrl, filename) ==
  [success |-> TRUE, dataUrl |-> Ref(dataUrl), filename |-> Ref(filename),
   screenshots |-> NULL, error |-> NULL]
BgHistory(list) ==
  [success |-> TRUE, dataUrl |-> NULL, filename |-> NULL,
   screenshots |-> Ref(list), error |-> NULL]
BgDone ==
  [success |-> TRUE, dataUrl |-> NULL, filename |-> NULL,
   screenshots |-> NULL, error |-> NULL]
BgFailure(message) ==
  [success |-> FALSE, dataUrl |-> NULL, filename |-> NULL,
   screenshots |-> NULL, error |-> Ref(message)]

\* a variant without the default branch
ListenerBranch_NoDefault(action) ==
  IF action \in {"capture", "deleteScreenshot"} THEN action ELSE "getHistory"

\* the switch of the onMessage listener
ListenerBranch(action) ==
  IF action \in {"capture", "getHistory", "deleteScreenshot"} THEN action ELSE "default"

----------------------------------------------------------------------------
(* Options page: the settings form *)

\* OptionsController.settings.maxHistory before anything is saved
DefaultMaxHistory == 50

\* parseInt of a string of decimal digits
RECURSIVE ParseInt(_)
ParseInt(digits) ==
  IF digits = <<>> THEN 0
  ELSE 10 * ParseInt(SubSeq(digits, 1, Len(digits) - 1)) + digits[Len(digits)]

\* the settings object saveSettings builds from the form
SettingsFromForm(f) ==
  [captureMode |-> IF f.defaultMode # "" THEN f.defaultMode ELSE "visible",
   autoDownload |-> f.autoDownload \/ TRUE,
   saveHistory |-> f.saveHistory \/ TRUE,
   maxHistory |-> ParseInt(IF f.maxHistory # <<>> THEN f.maxHistory ELSE <<5, 0>>),
   imageQuality |-> ParseInt(IF f.imageQuality # <<>> THEN f.imageQuality ELSE <<9, 0>>),
   filenamePattern |-> IF f.filenamePattern # "" THEN f.filenamePattern
                       ELSE "screenshot_{date}_{time}"]

Forms ==
  { [defaultMode |-> "full", autoDownload |-> FALSE, saveHistory |-> FALSE,
     maxHistory |-> <<2>>, imageQuality |-> <<8, 0>>, filenamePattern |-> "shot_{date}"],
    [defaultMode |-> "", autoDownload |-> TRUE, saveHistory |-> TRUE,
     maxHistory |-> <<>>, imageQuality |-> <<>>, filenamePattern |-> ""] }

\* the form states the options page is exercised with next to the background
CoordForms == { f \in Forms : f.maxHistory = <<2>> }

----------------------------------------------------------------------------
(* Inputs of the background listener *)

\* the history left by n earlier captures, newest first
OldImage == [format |-> "png", quality |-> 100, width |-> 0, height |-> 0, draws |-> <<>>]

OldHistory(n) == [k \in 1..n |-> ScreenshotData(n + 1 - k, OldImage, TheTab)]

InitHistories == { NULL, Ref(OldHistory(HistoryCap - 1)) }

DeleteIds == { IdOf(HistoryCap - 1), IdOf(StartTime) }

Messages ==
  { [action |-> "capture", mode |-> m, id |-> NULL] : m \in {"visible", "full"} }
  \cup { [action |-> "getHistory", mode |-> "", id |-> NULL] }
  \cup { [action |-> "deleteScreenshot", mode |-> "", id |-> Ref(d)] : d \in DeleteIds }
  \cup { [action |-> "clearHistory", mode |-> "", id |-> NULL] }

\* sender.tab: only handleCapture reads it, and before it looks at the mode
Senders(m) ==
  IF m.action = "capture" /\ m.mode = "visible" THEN { NULL, Ref(TheTab) }
  ELSE IF m.action = "capture" THEN { Ref(TheTab) }
  ELSE { NULL }

\* the page the tab shows while the background is exercised
CoordPages == { p \in Pages : p.pageWidth = 1920 /\ p.pageHeight = 3000 }

----------------------------------------------------------------------------
(* Background service worker: the listener and its handlers *)

\* sendResponse(resp) ends the handler of request r
Respond(r, resp) ==
  /\ response' = [response EXCEPT ![r] = Ref(resp)]
  /\ bpc' = [bpc EXCEPT ![r] = "responded"]
  /\ shot' = [shot EXCEPT ![r] = NULL]
  /\ arr' = [arr EXCEPT ![r] = NULL]

\* a variant that goes to the download without the insert
AfterCapture_SkipInsert(r, dataUrl) ==
  /\ shot' = [shot EXCEPT ![r] = Ref(ScreenshotData(clock, dataUrl, Deref(tab[r])))]
  /\ bpc' = [bpc EXCEPT ![r] = "download"]
  /\ UNCHANGED <<arr, response>>

\* handleCapture after the image is there: timestamp, record, saveScreenshot's get
AfterCapture(r, dataUrl) ==
  /\ shot' = [shot EXCEPT ![r] = Ref(ScreenshotData(clock, dataUrl, Deref(tab[r])))]
  /\ bpc' = [bpc EXCEPT ![r] = "saveGet"]
  /\ UNCHANGED <<arr, response>>

\* a variant that takes every sender to have a tab
HasTabId_Always(t) == TRUE

\* tab?.id is there: the test at the top of handleCapture
HasTabId(t) == t # NULL

\* the listener runs for message m from a sender with tab t
Receive(r, m, t) ==
  /\ bpc[r] = "new"
  /\ r > 1 => bpc[r - 1] # "new"
  /\ msg' = [msg EXCEPT ![r] = Ref(m)]
  /\ tab' = [tab EXCEPT ![r] = t]
  /\ LET branch == ListenerBranch(m.action)
     IN CASE branch = "capture" ->
               IF ~HasTabId(t)
                 THEN Respond(r, BgFailure(MsgNoTab))
                 ELSE /\ bpc' = [bpc EXCEPT ![r] =
                                   IF m.mode = "visible" THEN "visibleTab" ELSE "content"]
                      /\ UNCHANGED <<shot, arr, response>>
          [] branch = "getHistory" ->
               /\ bpc' = [bpc EXCEPT ![r] = "histGet"]
               /\ UNCHANGED <<shot, arr, response>>
          [] branch = "deleteScreenshot" ->
               /\ bpc' = [bpc EXCEPT ![r] = "delGet"]
               /\ UNCHANGED <<shot, arr, response>>
          [] OTHER -> Respond(r, BgFailure(MsgUnknownAction))
  /\ UNCHANGED <<screenshots, settings, clock, downloads>>
  /\ UNCHANGED orchVars

\* chrome.tabs.captureVisibleTab settles
VisibleTabSettle(r) ==
  /\ bpc[r] = "visibleTab"
  /\ \E ok \in BOOLEAN :
       IF ok THEN AfterCapture(r, VisibleImage(page, scroll))
       ELSE Respond(r, BgFailure(MsgCaptureError))
  /\ UNCHANGED <<screenshots, settings, clock, msg, tab, downloads>>
  /\ UNCHANGED orchVars

\* chrome.tabs.sendMessage finds no listener in the tab
ContentUnreachable(r) ==
  /\ bpc[r] = "content"
  /\ pc[r] = "idle"
  /\ Respond(r, BgFailure(MsgNoReceiver))
  /\ UNCHANGED <<screenshots, settings, clock, msg, tab, downloads>>
  /\ UNCHANGED orchVars

\* the captureFullPage message of request r reaches the content script
ContentDeliver(r) ==
  /\ bpc[r] = "content"
  /\ Invoke(r, NoOptions)
  /\ UNCHANGED coordVars

\* the content script's reply reaches handleCapture
ContentReply(r) ==
  /\ bpc[r] = "content"
  /\ pc[r] \in Ended \cup {"rejected"}
  /\ LET res == result[r]
     IN IF ~res.success
          THEN Respond(r, BgFailure(IF res.error # NULL /\ res.error # Ref("")
                                      THEN Deref(res.error) ELSE MsgFullPageFailed))
          ELSE AfterCapture(r, Deref(res.dataUrl))
  /\ UNCHANGED <<screenshots, settings, clock, msg, tab, downloads>>
  /\ UNCHANGED orchVars

\* the listener runs for the content script's captureVisibleTab message and its
\* answer reaches captureVisibleArea's callback
TileRequestAnswered(r) ==
  /\ pc[r] = "capture"
  /\ LET branch == ListenerBranch("captureVisibleTab")
         resp == IF branch = "default" THEN BgFailure(MsgUnknownAction)
                 ELSE BgCaptured(scroll, FilenameOf(clock))
     IN TileSettle(r, [lastError |-> NULL, success |-> resp.success,
                       dataUrl |-> resp.dataUrl, error |-> resp.error])
  /\ UNCHANGED coordVars

\* saveScreenshot: chrome.storage.local.get settles
SaveGetSettle(r) ==
  /\ bpc[r] = "saveGet"
  /\ \E ok \in BOOLEAN :
       IF ok
         THEN /\ arr' = [arr EXCEPT ![r] =
                           Ref(Splice(Unshift(OrEmptyArray(screenshots), Deref(shot[r]))))]
              /\ bpc' = [bpc EXCEPT ![r] = "saveSet"]
              /\ UNCHANGED <<shot, response>>
         ELSE Respond(r, BgFailure(MsgSaveFailed))
  /\ UNCHANGED <<screenshots, settings, clock, msg, tab, downloads>>
  /\ UNCHANGED orchVars

\* saveScreenshot: chrome.storage.local.set settles; downloadScreenshot starts
SaveSetSettle(r) ==
  /\ bpc[r] = "saveSet"
  /\ \E ok \in BOOLEAN :
       IF ok
         THEN /\ screenshots' = arr[r]
              /\ arr' = [arr EXCEPT ![r] = NULL]
              /\ bpc' = [bpc EXCEPT ![r] = "download"]
              /\ UNCHANGED <<shot, response>>
         ELSE /\ Respond(r, BgFailure(MsgSaveFailed))
              /\ UNCHANGED screenshots
  /\ UNCHANGED <<settings, clock, msg, tab, downloads>>
  /\ UNCHANGED orchVars

\* downloadScreenshot: chrome.downloads.download settles
DownloadSettle(r) ==
  /\ bpc[r] = "download"
  /\ \E ok \in BOOLEAN :
       IF ok
         THEN /\ downloads' = Append(downloads, [url |-> Deref(shot[r]).dataUrl,
                                                 filename |-> Deref(shot[r]).filename])
              /\ Respond(r, BgCaptured(Deref(shot[r]).dataUrl, Deref(shot[r]).filename))
         ELSE /\ Respond(r, BgFailure(MsgDownloadFailed))
              /\ UNCHANGED downloads
  /\ UNCHANGED <<screenshots, settings, clock, msg, tab>>
  /\ UNCHANGED orchVars

\* a variant that leaves out the last record
HistoryGetSettle_DropsLast(r) ==
  /\ bpc[r] = "histGet"
  /\ \E ok \in BOOLEAN :
       IF ok THEN Respond(r, BgHistory(SubSeq(OrEmptyArray(screenshots), 1,
                                              Len(OrEmptyArray(screenshots)) - 1)))
       ELSE Respond(r, BgFailure(MsgStorageError))
  /\ UNCHANGED <<screenshots, settings, clock, msg, tab, downloads>>
  /\ UNCHANGED orchVars

\* getScreenshotHistory: chrome.storage.local.get settles
HistoryGetSettle(r) ==
  /\ bpc[r] = "histGet"
  /\ \E ok \in BOOLEAN :
       IF ok THEN Respond(r, BgHistory(OrEmptyArray(screenshots)))
       ELSE Respond(r, BgFailure(MsgStorageError))
  /\ UNCHANGED <<screenshots, settings, clock, msg, tab, downloads>>
  /\ UNCHANGED orchVars

\* deleteScreenshot: chrome.storage.local.get settles
DeleteGetSettle(r) ==
  /\ bpc[r] = "delGet"
  /\ \E ok \in BOOLEAN :
       IF ok
         THEN /\ arr' = [arr EXCEPT ![r] =
                           Ref(FilterOut(OrEmptyArray(screenshots), Deref(Deref(msg[r]).id)))]
              /\ bpc' = [bpc EXCEPT ![r] = "delSet"]
              /\ UNCHANGED <<shot, response>>
         ELSE Respond(r, BgFailure(MsgStorageError))
  /\ UNCHANGED <<screenshots, settings, clock, msg, tab, downloads>>
  /\ UNCHANGED orchVars

\* a variant that answers success when the write failed
DeleteSetSettle_Swallow(r) ==
  /\ bpc[r] = "delSet"
  /\ \E ok \in BOOLEAN :
       IF ok
         THEN /\ screenshots' = arr[r]
              /\ Respond(r, BgDone)
         ELSE /\ Respond(r, BgDone)
              /\ UNCHANGED screenshots
  /\ UNCHANGED <<settings, clock, msg, tab, downloads>>
  /\ UNCHANGED orchVars

\* deleteScreenshot: chrome.storage.local.set settles
DeleteSetSettle(r) ==
  /\ bpc[r] = "delSet"
  /\ \E ok \in BOOLEAN :
       IF ok
         THEN /\ screenshots' = arr[r]
              /\ Respond(r, BgDone)
         ELSE /\ Respond(r, BgFailure(MsgStorageError))
              /\ UNCHANGED screenshots
  /\ UNCHANGED <<settings, clock, msg, tab, downloads>>
  /\ UNCHANGED orchVars

\* the present clock value is on a record in flight or in the store, or is the
\* one a pending delete asks for
ClockValueInUse ==
  \/ \E r \in Req : shot[r] # NULL /\ Deref(shot[r]).timestamp = clock
  \/ \E r \in Req : arr[r] # NULL
                       /\ \E k \in 1..Len(Deref(arr[r])) : Deref(arr[r])[k].timestamp = clock
  \/ \E k \in 1..Len(OrEmptyArray(screenshots)) :
       OrEmptyArray(screenshots)[k].timestamp = clock
  \/ \E r \in Req : msg[r] # NULL /\ Deref(msg[r]).id = Ref(IdOf(clock))

\* time passes. Only handleCapture reads the clock, once, when its image is
\* there, so time is advanced only while a handler is about to read it, and only
\* past a value that is in use (past an unused value nothing can tell the
\* difference).
Tick ==
  /\ clock < StartTime + MaxTicks
  /\ \E r \in Req : bpc[r] \in {"visibleTab", "content"}
  /\ ClockValueInUse
  /\ clock' = clock + 1
  /\ UNCHANGED <<screenshots, settings, bpc, msg, tab, shot, arr, response, downloads>>
  /\ UNCHANGED orchVars

----------------------------------------------------------------------------
(* Options page: storage operations *)

\* clearAllScreenshots, confirmed: chrome.storage.local.set({ screenshots: [] })
ClearAllScreenshots ==
  /\ screenshots' = Ref(<<>>)
  /\ UNCHANGED <<settings, clock, bpc, msg, tab, shot, arr, response, downloads>>
  /\ UNCHANGED orchVars

\* saveSettings with the form showing f. No handler of the background reads the
\* stored settings, so the order of this write and their steps makes no
\* difference; it is taken before the first request.
SaveSettings(f) ==
  /\ \A r \in Req : bpc[r] = "new"
  /\ settings' = Ref(SettingsFromForm(f))
  /\ UNCHANGED <<screenshots, clock, bpc, msg, tab, shot, arr, response, downloads>>
  /\ UNCHANGED orchVars

----------------------------------------------------------------------------
(* The extension as wired: popup or page -> background -> content script *)

Init ==
  /\ page \in CoordPages
  /\ scroll = <<MaxScrollX(page), MaxScrollY(page)>>
  /\ ContentInit
  /\ screenshots \in InitHistories
  /\ settings = NULL
  /\ clock = StartTime
  /\ bpc = [r \in Slots |-> "new"]
  /\ msg = [r \in Slots |-> NULL]
  /\ tab = [r \in Slots |-> NULL]
  /\ shot = [r \in Slots |-> NULL]
  /\ arr = [r \in Slots |-> NULL]
  /\ response = [r \in Slots |-> NULL]
  /\ downloads = <<>>

ListenerReceives == \E r \in Req, m \in Messages : \E t \in Senders(m) : Receive(r, m, t)
ContentSettleWait == \E r \in Req : WaitDone(r) /\ UNCHANGED coordVars

\* no image ever reaches drawImageToCanvas in this wiring (TileRequestAnswered),
\* so img.onload and img.onerror have nothing to fire for
Next ==
  \/ ListenerReceives
  \/ \E r \in Req : VisibleTabSettle(r)
  \/ \E r \in Req : ContentUnreachable(r)
  \/ \E r \in Req : ContentDeliver(r)
  \/ ContentSettleWait
  \/ \E r \in Req : TileRequestAnswered(r)
  \/ \E r \in Req : ContentReply(r)
  \/ \E r \in Req : SaveGetSettle(r)
  \/ \E r \in Req : SaveSetSettle(r)
  \/ \E r \in Req : DownloadSettle(r)
  \/ \E r \in Req : HistoryGetSettle(r)
  \/ \E r \in Req : DeleteGetSettle(r)
  \/ \E r \in Req : DeleteSetSettle(r)
  \/ Tick
  \/ ClearAllScreenshots
  \/ \E f \in CoordForms : SaveSettings(f)

Spec == Init /\ [][Next]_vars

\* every browser call a handler awaits settles, and every message sent is
\* delivered or refused
HandlerSteps(r) ==
  \/ VisibleTabSettle(r)
  \/ ContentUnreachable(r)
  \/ ContentDeliver(r)
  \/ (WaitDone(r) /\ UNCHANGED coordVars)
  \/ TileRequestAnswered(r)
  \/ ContentReply(r)
  \/ SaveGetSettle(r)
  \/ SaveSetSettle(r)
  \/ DownloadSettle(r)
  \/ HistoryGetSettle(r)
  \/ DeleteGetSettle(r)
  \/ DeleteSetSettle(r)

\* the extension started on a store nothing was ever written to
FreshInit == Init /\ screenshots = NULL

FairSpec == FreshInit /\ [][Next]_vars /\ \A r \in Req : WF_vars(HandlerSteps(r))

----------------------------------------------------------------------------
(* Properties of the content script *)

ActiveCalls == { i \in Inv : pc[i] \in Active }

IsPrefix(s, t) == Len(s) <= Len(t) /\ \A k \in 1..Len(s) : s[k] = t[k]

\* C1: a captureFullPage call made while a session is in flight is rejected at
\* once with the in-progress error and changes nothing else, and at most one
\* session is active in every reachable state.
C1_SingleFlight ==
  /\ [](Cardinality(ActiveCalls) <= 1)
  /\ [][\A i \in Inv :
          (pc[i] = "idle" /\ pc'[i] # "idle" /\ ActiveCalls # {})
            => /\ pc'[i] = "rejected"
               /\ result'[i] = [success |-> FALSE, dataUrl |-> NULL,
                                error |-> Ref(MsgInProgress)]
               /\ \A j \in Inv \ {i} : pc'[j] = pc[j]]_vars

C1_Witness ==
  \E i, j \in Inv : pc[i] = "draw" /\ pc[j] = "rejected" /\ Len(tiles) > 1

\* C2: the busy flag is set exactly while an accepted session is in flight, on
\* every exit path it is cleared, and a call made while no session is in
\* flight is accepted.
C2_FlagFollowsSession ==
  /\ [](isCapturing <=> ActiveCalls # {})
  /\ [][\A i \in Inv :
          (pc[i] = "idle" /\ pc'[i] # "idle" /\ ActiveCalls = {})
            => pc'[i] # "rejected"]_vars

C2_Witness ==
  \E i, j, k \in Inv :
    /\ i < j /\ j < k
    /\ pc[i] = "failed" /\ result[i].error = Ref(MsgImageLoad)
    /\ pc[j] = "failed" /\ result[j].error = Ref("port closed")
    /\ pc[k] = "done"

\* C3: whenever the busy flag is false, the canvas and its context are null.
C3_NoSurfaceWhenIdle ==
  ~isCapturing => (canvas = NULL /\ ctx = NULL)

C3_Witness ==
  /\ ~isCapturing
  /\ \E i, j \in Inv :
       /\ pc[i] = "failed" /\ result[i].error = Ref(MsgImageLoad)
       /\ pc[j] = "done"

\* C4 (as claimed): when a session ends, with an image or with a failure, the
\* scroll position is the one recorded at the start of the session.
C4_ScrollRestoredOnEveryExit ==
  [][\A i \in Inv :
       (pc[i] \in Active /\ pc'[i] \in Ended) => scroll' = orig[i]]_vars

\* the (row, col) pairs of a rows x cols grid in row-major order
RowMajor(rows, cols) ==
  [k \in 1..(rows * cols) |-> <<(k - 1) \div cols, (k - 1) % cols>>]

ExpectedRows == (page.pageHeight + page.viewportHeight - 1) \div page.viewportHeight
ExpectedCols == (page.pageWidth + page.viewportWidth - 1) \div page.viewportWidth

\* C5: the tile requests of a session are issued in row-major order, and a
\* session that returns an image has issued exactly ceil(H/h) * ceil(W/w).
C5_RowMajorTiles ==
  /\ [](IsPrefix(tiles, RowMajor(ExpectedRows, ExpectedCols)))
  /\ [][\A i \in Inv :
          (pc[i] \in Active /\ pc'[i] = "done")
            => /\ tiles' = RowMajor(ExpectedRows, ExpectedCols)
               /\ Len(tiles') = ExpectedRows * ExpectedCols]_vars

C5_Witness ==
  /\ page = [pageWidth |-> 1000, pageHeight |-> 1000,
             viewportWidth |-> 400, viewportHeight |-> 400]
  /\ ~isCapturing
  /\ \E i \in Inv : pc[i] = "done"
  /\ tiles = << <<0, 0>>, <<0, 1>>, <<0, 2>>, <<1, 0>>, <<1, 1>>, <<1, 2>>,
                <<2, 0>>, <<2, 1>>, <<2, 2>> >>

Draws == IF canvas = NULL THEN <<>> ELSE Deref(canvas).draws

\* C7: at most one tile request is outstanding; the k-th draw is the k-th
\* requested tile, captured at its own scroll target and drawn at
\* (col * viewportWidth, row * viewportHeight); a session waits for the next
\* tile only when every requested tile has been drawn.
C7_OneTileAtATime ==
  /\ Cardinality(pending) <= 1
  /\ \A i \in Inv :
       /\ pc[i] = "wait" => (Len(Draws) = Len(tiles) /\ pending = {})
       /\ pc[i] = "capture" => (Len(tiles) = Len(Draws) + 1 /\ pending = {i})
       /\ pc[i] = "draw" => (Len(tiles) = Len(Draws) + 1 /\ pending = {})
  /\ Len(Draws) <= Len(tiles)
  /\ \A k \in 1..Len(Draws) :
       /\ Draws[k].x = tiles[k][2] * page.viewportWidth
       /\ Draws[k].y = tiles[k][1] * page.viewportHeight
       /\ Draws[k].tile = ScrollTo(page, Draws[k].x, Draws[k].y)

C7_Witness ==
  \E i \in Inv : pc[i] = "capture" /\ Len(Draws) = 4 /\ pos[i] = <<1, 1>>

AnswerFailed(a) == a.lastError # NULL \/ ~a.success

\* C8: a failed tile capture or a failed draw ends the session at that tile:
\* the call fails with the cause's message and no image, no further tile is
\* requested or scrolled to, and the call never resumes.
C8_AbortOnTileFailure ==
  /\ [](\A i \in Inv : pc[i] = "failed"
          => (~result[i].success /\ result[i].dataUrl = NULL /\ result[i].error # NULL))
  /\ [][\A i \in Inv :
          /\ (pc[i] = "capture" /\ pc'[i] # "capture" /\ AnswerFailed(Deref(reply')))
               => /\ pc'[i] = "failed"
                  /\ result'[i].error =
                       (IF Deref(reply').lastError # NULL THEN Deref(reply').lastError
                        ELSE IF Deref(reply').error # NULL THEN Deref(reply').error
                        ELSE Ref(MsgTileFailed))
                  /\ tiles' = tiles /\ scroll' = scroll /\ pending' = {}
          /\ (pc[i] = "draw" /\ pc'[i] = "failed")
               => /\ result'[i].error \in {Ref(MsgImageLoad), Ref(MsgCtxUnavailable)}
                  /\ tiles' = tiles /\ scroll' = scroll /\ pending' = {}
          /\ pc[i] = "failed" => (pc'[i] = "failed" /\ result'[i] = result[i])]_vars

C8_Witness ==
  \E i \in Inv :
    /\ pc[i] = "failed" /\ result[i].error = Ref("tab not capturable")
    /\ Len(tiles) = 2
    /\ page.viewportWidth = 400

\* C26: a call rejected by the guard is made while the flag is set and leaves
\* it set; the canvas and context of the session in flight stay referenced and
\* are the same objects with the same content, the scroll offset is not
\* changed, and the session in flight is where it was.
C26_RejectedCallTouchesNothing ==
  [][\A i \in Inv :
       (pc[i] = "idle" /\ pc'[i] = "rejected")
         => /\ isCapturing /\ isCapturing'
            /\ canvas # NULL /\ canvas' = canvas
            /\ ctx # NULL /\ ctx' = ctx
            /\ scroll' = scroll
            /\ ActiveCalls' = ActiveCalls /\ ActiveCalls # {}
            /\ \A j \in ActiveCalls : pc'[j] = pc[j] /\ pos'[j] = pos[j]
            /\ <<tiles', pending', reply'>> = <<tiles, pending, reply>>]_vars

C26_Witness ==
  \E i, j \in Inv :
    /\ pc[i] = "capture" /\ pc[j] = "rejected"
    /\ isCapturing /\ canvas # NULL /\ ctx # NULL
    /\ Len(Draws) = 1
    /\ scroll # orig[i]

\* C27: while the busy flag is set a session is in flight and a step of it is
\* pending, and when every pending step completes or fails the flag is cleared
\* again and again: no accepted session stays in flight for ever.
C27_SessionsEnd ==
  /\ [](isCapturing => (ActiveCalls # {} /\ ENABLED SessionStep))
  /\ [](\A i \in Inv : pc[i] \in Active => isCapturing)
  /\ []<>(~isCapturing)

C27_Witness ==
  /\ ~isCapturing
  /\ \E i, j \in Inv :
       /\ pc[i] = "done" /\ pc[j] = "failed"
       /\ result[j].error = Ref(MsgImageLoad)
  /\ Len(tiles) = ExpectedRows * ExpectedCols
  /\ Len(tiles) >= 4

----------------------------------------------------------------------------
(* Properties of the extension as wired *)

History == OrEmptyArray(screenshots)

\* C6 (as claimed): a full-mode capture of the 1920x3000 page through a
\* 1920x1000 viewport, once its canvas context exists, ends with three tiles
\* requested and drawn at (0,0), (0,1000), (0,2000), a success reply carrying
\* the composed 1920x3000 image, and the scroll offset it started from.
C6_FullCaptureEndToEnd ==
  [][\A r \in Req :
       (pc[r] \in Active /\ pc'[r] \in Ended)
         => /\ pc'[r] = "done"
            /\ tiles' = << <<0, 0>>, <<1, 0>>, <<2, 0>> >>
            /\ result'[r].success
            /\ Deref(result'[r].dataUrl).width = 1920
            /\ Deref(result'[r].dataUrl).height = 3000
            /\ [k \in 1..3 |-> <<Deref(result'[r].dataUrl).draws[k].x,
                                 Deref(result'[r].dataUrl).draws[k].y>>]
                 = << <<0, 0>>, <<0, 1000>>, <<0, 2000>> >>
            /\ scroll' = orig[r]]_vars

\* the cap the options page has stored, or its default
ConfiguredMaxHistory ==
  IF settings = NULL THEN DefaultMaxHistory ELSE Deref(settings).maxHistory

\* C9 (as claimed): when an insert's write-back or a clear completes, the
\* stored history is no longer than the configured maxHistory.
C9_WithinConfiguredMax ==
  [][((\E r \in Req : bpc[r] = "saveSet" /\ bpc'[r] = "download")
        \/ (screenshots' # screenshots /\ screenshots' = Ref(<<>>)))
       => Len(OrEmptyArray(screenshots')) <= ConfiguredMaxHistory']_vars

\* C10 (as claimed): the stored history, which list() returns, is ordered
\* newest first by timestamp.
C10_NewestFirst ==
  \A k \in 1..(Len(History) - 1) : History[k].timestamp >= History[k + 1].timestamp

\* C11 (as claimed): the records in the store at one time have pairwise distinct
\* ids, also when two captures take their timestamp at the same clock value.
C11_DistinctIds ==
  \A j, k \in 1..Len(History) : j # k => History[j].id # History[k].id

\* C12: an insert puts its record in front of the records it found, in their
\* order (cut at the cap), its write-back stores exactly that list, and a
\* listing answers with the stored list: listing right after an insert shows
\* the new record first and the earlier records after it in their order.
C12_InsertThenList ==
  [][\A r \in Req :
       /\ (bpc[r] = "saveGet" /\ bpc'[r] = "saveSet")
            => LET new == Deref(arr'[r])
               IN /\ new[1] = Deref(shot[r])
                  /\ IsPrefix(Tail(new), History)
                  /\ Len(History) < HistoryCap => Tail(new) = History
       /\ (bpc[r] = "saveSet" /\ bpc'[r] = "download")
            => /\ History' = Deref(arr[r])
               /\ History'[1] = Deref(shot[r])
       /\ (bpc[r] = "histGet" /\ response'[r] # NULL /\ Deref(response'[r]).success)
            => Deref(response'[r]).screenshots = Ref(History)]_vars

C12_Witness ==
  \E r, q \in Req :
    /\ bpc[r] = "download"
    /\ Len(History) = HistoryCap
    /\ History[1] = Deref(shot[r])
    /\ History[2].timestamp = HistoryCap - 1
    /\ response[q] # NULL
    /\ Deref(response[q]).screenshots = Ref(History)

\* C13: an insert that finds the store full (its record would make the list
\* longer than the cap) writes back exactly cap records: its own record first,
\* then the records it found except the last ones, in their order.
C13_TruncateFromTail ==
  [][\A r \in Req :
       /\ (bpc[r] = "saveGet" /\ bpc'[r] = "saveSet" /\ Len(History) + 1 > HistoryCap)
            => LET new == Deref(arr'[r])
               IN /\ Len(new) = HistoryCap
                  /\ new[1] = Deref(shot[r])
                  /\ \A k \in 2..HistoryCap : new[k] = History[k - 1]
       /\ (bpc[r] = "saveSet" /\ bpc'[r] = "download")
            => (History' = Deref(arr[r]) /\ Len(History') <= HistoryCap)]_vars

C13_Witness ==
  \E r, q \in Req :
    /\ r # q
    /\ bpc[r] = "download"
    /\ bpc[q] \in {"download", "responded"}
    /\ Len(History) = HistoryCap
    /\ History[1] = Deref(shot[r])
    /\ History[2].timestamp >= StartTime
    /\ History[HistoryCap].timestamp = 2

Ids(list) == { list[k].id : k \in 1..Len(list) }

IsDelete(r) == msg[r] # NULL /\ Deref(msg[r]).action = "deleteScreenshot"

DeleteId(r) == Deref(Deref(msg[r]).id)

\* C14: a deleteScreenshot whose id is on no record it finds writes back the
\* records it found, the same ones in the same order, and answers success; the
\* only failure it can answer is that of the storage call itself, which
\* leaves the store as it was.
C14_DeleteAbsentIsNoOp ==
  [][\A r \in Req :
       /\ (bpc[r] = "delGet" /\ bpc'[r] = "delSet" /\ DeleteId(r) \notin Ids(History))
            => arr'[r] = Ref(History)
       /\ (bpc[r] = "delSet" /\ bpc'[r] = "responded")
            => \/ response'[r] = Ref(BgDone) /\ screenshots' = arr[r]
               \/ /\ response'[r] = Ref(BgFailure(MsgStorageError))
                  /\ screenshots' = screenshots]_vars

C14_Witness ==
  \E r \in Req :
    /\ IsDelete(r)
    /\ DeleteId(r) = IdOf(StartTime)
    /\ response[r] = Ref(BgDone)
    /\ History = OldHistory(HistoryCap - 1)
    /\ \A q \in Req \ {r} : bpc[q] = "new"

\* the positions of list, up to k, whose record has the id
Hits(list, id, k) == { j \in 1..k : list[j].id = id }

\* C15: a deleteScreenshot whose id is on a record it finds writes back the
\* records it found without those that have the id: every other record is kept
\* and the kept ones are in the order they had; when it answers success no
\* record in the store has the id.
C15_DeletePresentRemovesOnlyIt ==
  [][\A r \in Req :
       /\ (bpc[r] = "delGet" /\ bpc'[r] = "delSet" /\ DeleteId(r) \in Ids(History))
            => LET new == Deref(arr'[r])
                   id == DeleteId(r)
               IN /\ id \notin Ids(new)
                  /\ Len(new) = Len(History) - Cardinality(Hits(History, id, Len(History)))
                  /\ Len(new) < Len(History)
                  /\ \A k \in 1..Len(History) :
                       History[k].id # id
                         => new[k - Cardinality(Hits(History, id, k))] = History[k]
       /\ (bpc[r] = "delSet" /\ bpc'[r] = "responded" /\ Deref(response'[r]).success)
            => (History' = Deref(arr[r]) /\ DeleteId(r) \notin Ids(History'))]_vars

C15_Witness ==
  \E r \in Req :
    /\ IsDelete(r)
    /\ DeleteId(r) = IdOf(HistoryCap - 1)
    /\ response[r] = Ref(BgDone)
    /\ History = OldHistory(HistoryCap - 2)
    /\ \A q \in Req \ {r} : bpc[q] = "new"

\* C16 (as claimed): the write-back of a deleteScreenshot never leaves the
\* store longer than it was just before that write-back, whatever inserts,
\* deletes and clears have run since the handler read the store.
C16_DeleteNeverGrows ==
  [][\A r \in Req :
       (bpc[r] = "delSet" /\ bpc'[r] = "responded") => Len(History') <= Len(History)]_vars

\* a record from before the run started is in the store
OldRecordPresent == \E k \in 1..Len(History) : History[k].timestamp < StartTime

\* C17 (as claimed): clearAllScreenshots leaves the store empty, and once the
\* records from before the run are gone from the store (only a clear removes
\* all of them) no step brings one of them back, also when an insert or a
\* delete had read the store and not yet written back.
C17_ClearedForGood ==
  [][/\ (screenshots' # screenshots /\ bpc' = bpc) => History' = <<>>
     /\ ~OldRecordPresent => ~OldRecordPresent']_vars

\* the success response for the record handler r has built
CapturedResponse(r) == BgCaptured(Deref(shot[r]).dataUrl, Deref(shot[r]).filename)

\* C18 (as claimed): a capture whose image is there and whose history insert
\* fails, at the storage read or at the storage write, is answered with success,
\* the image and the filename.
C18_InsertFailureStillSuccess ==
  [][\A r \in Req :
       (bpc[r] \in {"saveGet", "saveSet"} /\ bpc'[r] = "responded")
         => response'[r] = Ref(CapturedResponse(r))]_vars

\* C19 (as claimed): a capture whose image is there and whose download fails
\* is answered with success, the image and the filename.
C19_DownloadFailureStillSuccess ==
  [][\A r \in Req :
       (bpc[r] = "download" /\ bpc'[r] = "responded")
         => response'[r] = Ref(CapturedResponse(r))]_vars

IsCapture(r) == msg[r] # NULL /\ Deref(msg[r]).action = "capture"

AfterImage == {"saveGet", "saveSet", "download"}

\* C20: a capture request that is answered with success has gone, once each and
\* in this order, through: building one record whose id, filename and timestamp
\* come from one clock reading; the insert of that record, whose write-back is
\* done when the download starts; one download of the record's image under the
\* record's filename; and the success response with that image and filename.
\* Nothing else starts or logs a download.
C20_InsertThenDownloadThenRespond ==
  [][/\ \A r \in Req :
          /\ (bpc[r] \notin AfterImage /\ bpc'[r] \in AfterImage)
               => /\ bpc'[r] = "saveGet"
                  /\ shot'[r] # NULL
                  /\ Deref(shot'[r]).timestamp = clock
                  /\ Deref(shot'[r]).id = IdOf(clock)
                  /\ Deref(shot'[r]).filename = FilenameOf(clock)
          /\ (bpc[r] \in AfterImage /\ bpc'[r] \in AfterImage) => shot'[r] = shot[r]
          /\ (bpc[r] = "saveGet" /\ bpc'[r] # bpc[r])
               => (bpc'[r] \in {"saveSet", "responded"} /\ screenshots' = screenshots)
          /\ (bpc[r] = "saveSet" /\ bpc'[r] # bpc[r])
               => \/ /\ bpc'[r] = "download"
                     /\ History'[1] = Deref(shot[r])
                     /\ downloads' = downloads
                  \/ /\ bpc'[r] = "responded"
                     /\ ~Deref(response'[r]).success
                     /\ screenshots' = screenshots
          /\ (bpc[r] = "download" /\ bpc'[r] # bpc[r])
               => /\ bpc'[r] = "responded"
                  /\ screenshots' = screenshots
                  /\ \/ /\ response'[r] = Ref(CapturedResponse(r))
                        /\ downloads' = Append(downloads,
                                                [url |-> Deref(shot[r]).dataUrl,
                                                 filename |-> Deref(shot[r]).filename])
                     \/ /\ ~Deref(response'[r]).success
                        /\ downloads' = downloads
          /\ (IsCapture(r) /\ response[r] = NULL /\ response'[r] # NULL
                /\ Deref(response'[r]).success)
               => bpc[r] = "download"
          /\ bpc[r] = "responded" => (bpc'[r] = "responded" /\ response'[r] = response[r])
     /\ downloads' # downloads
          => \E r \in Req : bpc[r] = "download" /\ bpc'[r] = "responded"]_vars

C20_Witness ==
  \E r \in Req :
    /\ IsCapture(r)
    /\ Deref(msg[r]).mode = "visible"
    /\ response[r] # NULL
    /\ Deref(response[r]).success
    /\ Deref(response[r]).dataUrl = Ref(VisibleImage(page, scroll))
    /\ Len(downloads) = 1
    /\ Ref(downloads[1].filename) = Deref(response[r]).filename
    /\ Ref(downloads[1].url) = Deref(response[r]).dataUrl
    /\ Len(History) = HistoryCap
    /\ Ref(History[1].filename) = Deref(response[r]).filename
    /\ Ref(History[1].dataUrl) = Deref(response[r]).dataUrl
    /\ History[1].id = IdOf(History[1].timestamp)
    /\ History[1].filename = FilenameOf(History[1].timestamp)

KnownActions == {"capture", "getHistory", "deleteScreenshot"}

\* C21: every message the listener is called with is answered, and answered
\* once: a response exists exactly when the handler has ended, a response once
\* sent is never replaced, and again and again a moment comes at which no
\* handler is unanswered (so no started handler stays unanswered for ever). A
\* message with an action outside the switch, the content script's
\* captureVisibleTab included, is answered at once with the failure
\* 'Unknown action' and changes nothing in the store, the settings or the
\* downloads.
C21_ExactlyOneResponse ==
  /\ [](\A r \in Req : (response[r] # NULL) <=> (bpc[r] = "responded"))
  /\ [][\A r \in Req :
          /\ bpc[r] = "responded" => (bpc'[r] = "responded" /\ response'[r] = response[r])
          /\ (bpc[r] = "new" /\ bpc'[r] # "new"
                /\ Deref(msg'[r]).action \notin KnownActions)
               => /\ response'[r] = Ref(BgFailure(MsgUnknownAction))
                  /\ UNCHANGED <<screenshots, settings, clock, downloads>>
                  /\ UNCHANGED orchVars
          /\ (pc[r] = "capture" /\ pc'[r] # "capture")
               => /\ Deref(reply').lastError = NULL
                  /\ ~Deref(reply').success
                  /\ Deref(reply').error = Ref(MsgUnknownAction)
                  /\ pending' = {}
                  /\ UNCHANGED coordVars]_vars
  /\ []<>(\A r \in Req : bpc[r] \in {"new", "responded"})

C21_Witness ==
  \E r, q \in Req :
    /\ msg[r] # NULL /\ Deref(msg[r]).action = "clearHistory"
    /\ response[r] = Ref(BgFailure(MsgUnknownAction))
    /\ IsCapture(q) /\ Deref(msg[q]).mode = "full"
    /\ response[q] = Ref(BgFailure(MsgUnknownAction))

IsFailure(resp) ==
  /\ ~resp.success
  /\ resp.error # NULL /\ resp.error # Ref("")
  /\ resp.dataUrl = NULL /\ resp.filename = NULL /\ resp.screenshots = NULL

\* C22: a response that is not a success has success = false, a non-empty error
\* message and neither image, filename nor record list; and every way a
\* capture, getHistory or deleteScreenshot handler can end is either its success
\* response or such a failure: a getHistory ends with the stored list or a
\* failure, a deleteScreenshot whose read fails ends with a failure, and one
\* whose write fails ends with a failure and not with success.
C22_FailuresAreReported ==
  /\ [](\A r \in Req :
          (response[r] # NULL /\ ~Deref(response[r]).success)
            => IsFailure(Deref(response[r])))
  /\ [][\A r \in Req :
          /\ (bpc[r] = "histGet" /\ bpc'[r] # "histGet")
               => \/ response'[r] = Ref(BgHistory(History))
                  \/ IsFailure(Deref(response'[r]))
          /\ (bpc[r] = "delGet" /\ bpc'[r] # "delGet")
               => \/ bpc'[r] = "delSet" /\ response'[r] = NULL
                  \/ IsFailure(Deref(response'[r]))
          /\ (bpc[r] = "delSet" /\ bpc'[r] # "delSet")
               => \/ response'[r] = Ref(BgDone) /\ screenshots' = arr[r]
                  \/ IsFailure(Deref(response'[r])) /\ screenshots' = screenshots
          /\ (IsCapture(r) /\ response[r] = NULL /\ response'[r] # NULL)
               => \/ bpc[r] = "download" /\ response'[r] = Ref(CapturedResponse(r))
                  \/ IsFailure(Deref(response'[r]))]_vars

C22_Witness ==
  \E r, q \in Req :
    /\ IsDelete(r)
    /\ DeleteId(r) = IdOf(HistoryCap - 1)
    /\ response[r] = Ref(BgFailure(MsgStorageError))
    /\ History = OldHistory(HistoryCap - 1)
    /\ IsCapture(q)
    /\ response[q] = Ref(BgFailure(MsgCaptureError))

IsGetHistory(r) == msg[r] # NULL /\ Deref(msg[r]).action = "getHistory"

\* C23: no step of a getHistory handler changes the store; when it answers
\* success the list in the answer is the stored list, every record in its
\* place, and the empty list when nothing was ever stored.
C23_ListIsPureSnapshot ==
  [][\A r \in Req :
       (IsGetHistory(r)' /\ bpc'[r] # bpc[r])
         => /\ screenshots' = screenshots
            /\ (response'[r] # NULL /\ Deref(response'[r]).success)
                 => /\ Deref(response'[r]).screenshots # NULL
                    /\ LET list == Deref(Deref(response'[r]).screenshots)
                       IN /\ Len(list) = Len(History)
                          /\ \A k \in 1..Len(list) : list[k] = History[k]
                          /\ screenshots = NULL => list = <<>>]_vars

C23_Witness ==
  \E r \in Req :
    /\ IsGetHistory(r)
    /\ response[r] = Ref(BgHistory(OldHistory(HistoryCap - 1)))
    /\ screenshots = Ref(OldHistory(HistoryCap - 1))

\* C24 (as claimed): when a capture request is answered with a failure, the
\* store holds no record of that capture and no download was done for it.
C24_FailedCaptureLeavesNoTrace ==
  [][\A r \in Req :
       (IsCapture(r) /\ response[r] = NULL /\ response'[r] # NULL
         /\ ~Deref(response'[r]).success)
         => /\ downloads' = downloads
            /\ shot[r] # NULL
                 => \A k \in 1..Len(History') : History'[k] # Deref(shot[r])]_vars

\* record x is the record of a capture request already answered with success
AnsweredSuccess(x) ==
  \E q \in Req :
    /\ IsCapture(q)
    /\ response[q] # NULL
    /\ Deref(response[q]).success
    /\ Deref(response[q]).filename = Ref(x.filename)
    /\ Deref(response[q]).dataUrl = Ref(x.dataUrl)

\* the step takes x out of the store by a delete of its id, by a clear, or by
\* cutting it off the tail of the full list in front of which a record is put
RemovedAsSpecified(x) ==
  \/ \E r \in Req : /\ IsDelete(r)
                      /\ bpc[r] = "delSet" /\ bpc'[r] = "responded"
                      /\ DeleteId(r) = x.id
  \/ bpc' = bpc /\ History' = <<>>
  \/ \E r \in Req : /\ bpc[r] = "saveSet" /\ bpc'[r] = "download"
                      /\ Len(History) = HistoryCap
                      /\ x = History[HistoryCap]
                      /\ History' = <<Deref(shot[r])>> \o SubSeq(History, 1, HistoryCap - 1)

\* C25 (as claimed): the record of a capture answered with success leaves the
\* store only by a delete of its id, a clear or tail eviction, also when
\* handlers overlap between their storage get and set.
C25_NoSuccessfulRecordLost ==
  [][\A k \in 1..Len(History) :
       (AnsweredSuccess(History[k])
         /\ \A j \in 1..Len(History') : History'[j] # History[k])
         => RemovedAsSpecified(History[k])]_vars

C29_SettingsAsEntered ==
  [][settings' # settings
       => \E f \in CoordForms :
            /\ Deref(settings').autoDownload = f.autoDownload
            /\ Deref(settings').saveHistory = f.saveHistory
            /\ Deref(settings').maxHistory = ParseInt(f.maxHistory)
            /\ Deref(settings').imageQuality = ParseInt(f.imageQuality)]_vars

====
